---- MODULE Spec2Model ----
(***************************************************************************)
(* padviz (src/main.cpp): two 6-bit virtual pads whose controls are bound  *)
(* to keyboard keys, structured-gamepad buttons/axes or raw joystick       *)
(* buttons/axes; a learning mode that rebinds the selected control; and a  *)
(* flat-text save/load of the twelve bindings.                             *)
(*                                                                         *)
(* Floats (axis samples, thresholds) are fixed-point integers in units of  *)
(* 1e-7: 0.45f is 4500000, 0.80f is 8000000.  "%.6f" therefore keeps the   *)
(* value rounded to a multiple of 10.                                      *)
(*                                                                         *)
(* One frame of main()'s loop is the chain of steps                        *)
(*   loop -> poll -> caches -> hotkeys -> learn -> sample -> keyprev       *)
(* each a call of the loop body, in the order of the source.               *)
(***************************************************************************)
EXTENDS Integers, Sequences, FiniteSets, TLC

\* ------------------------------------------------------------------------
\* GLFW constants the program uses (values of GLFW 3.3's glfw3.h)
\* ------------------------------------------------------------------------
GLFW_KEY_LAST == 348
GLFW_KEY_SPACE == 32
GLFW_KEY_1 == 49
GLFW_KEY_2 == 50
GLFW_KEY_3 == 51
GLFW_KEY_4 == 52
GLFW_KEY_5 == 53
GLFW_KEY_6 == 54
GLFW_KEY_A == 65
GLFW_KEY_D == 68
GLFW_KEY_J == 74
GLFW_KEY_K == 75
GLFW_KEY_M == 77
GLFW_KEY_N == 78
GLFW_KEY_S == 83
GLFW_KEY_W == 87
GLFW_KEY_ESCAPE == 256
GLFW_KEY_TAB == 258
GLFW_KEY_BACKSPACE == 259
GLFW_KEY_RIGHT == 262
GLFW_KEY_LEFT == 263
GLFW_KEY_DOWN == 264
GLFW_KEY_UP == 265
GLFW_KEY_F1 == 290
GLFW_KEY_F2 == 291
GLFW_KEY_F5 == 294
GLFW_KEY_F9 == 298
GLFW_JOYSTICK_1 == 0
GLFW_JOYSTICK_LAST == 15
GLFW_GAMEPAD_BUTTON_LAST == 14
GLFW_GAMEPAD_AXIS_LAST == 5
GLFW_PRESS == 1
GLFW_RELEASE == 0

\* enum class BindType
BT_None == 0
BT_Key == 1
BT_GamepadButton == 2
BT_GamepadAxisDir == 3
BT_JoyButton == 4
BT_JoyAxisDir == 5

\* enum class VKey
VK_Up == 0
VK_Down == 1
VK_Left == 2
VK_Right == 3
VK_B1 == 4
VK_B2 == 5
VK_Count == 6

\* Thresholds, in units of 1e-7
DefaultThreshold == 4500000
LearnedThreshold == 4500000
gLearnThreshold == 5500000
DeadZone == 2000000

Pads == 0..1
VKeys == 0..(VK_Count - 1)

\* ------------------------------------------------------------------------
\* Bounds of the model
\* ------------------------------------------------------------------------
\* The most keys the environment holds down at once.
MaxDown == 2
\* The most lines of a mapping file written by something other than save.
MaxLines == 2
\* The part of GLFW's fixed tables the state holds: joystick slots
\* GLFW_JOYSTICK_1..JoyLast, gamepad buttons 0..GpButtonLast and gamepad axes
\* 0..GpAxisLast.  No device is ever connected to a slot above JoyLast, and
\* a gamepad button or axis above these stays released / at rest.
JoyLast == 1
GpButtonLast == 1
GpAxisLast == 1

\* ------------------------------------------------------------------------
\* struct Binding
\* ------------------------------------------------------------------------
Binding(t, j, c, d, th) == [type |-> t, jid |-> j, code |-> c, dir |-> d, threshold |-> th]

\* Binding{} : the member initialisers
NoBinding == Binding(BT_None, -1, -1, 0, DefaultThreshold)

Abs(x) == IF x < 0 THEN -x ELSE x

VARIABLES
  pc,            \* position of main(): start, loop, poll, ..., exited
  exitCode,      \* main's return value once pc = "exited", else -1
  shouldClose,   \* the window's close flag (glfwSetWindowShouldClose)
  gKeyDown,      \* set of key codes k with gKeyDown[k]
  gKeyDownPrev,  \* set of key codes k with gKeyDownPrev[k]
  gPad,          \* gPad[p].bind[k]
  gJoy,          \* gJoy[jid] : JoyCache
  gEditPad, gEditKey, gLearning,
  dig,           \* s0, s1 of the frame: dig[p][k]
  dev,           \* the joysticks as GLFW reports them now
  fs,            \* padmap.txt: [state, lines]
  keysSeen,      \* history: gKeyDown as the previous frame's consumers saw it
  devSeen,       \* history: dev[jid].present during the previous frame
  padTick,       \* history: gPad when the frame's events were polled
  editTick,      \* history: <<gEditPad, gEditKey, gLearning>> at that moment
  armSeen,       \* history: SPACE was the one key newly pressed in the previous frame
  devPrior       \* history: the joysticks as GLFW reported them in the previous frame

vars == <<pc, exitCode, shouldClose, gKeyDown, gKeyDownPrev, gPad, gJoy,
          gEditPad, gEditKey, gLearning, dig, dev, fs,
          keysSeen, devSeen, padTick, editTick, armSeen,
                 devPrior>>

\* ------------------------------------------------------------------------
\* Small helpers: C arrays and std::vector are 1-based sequences here, so
\* element i of the source is v[i + 1].
\* ------------------------------------------------------------------------
At(v, i) == v[i + 1]
Size(v) == Len(v)

Jids == GLFW_JOYSTICK_1..GLFW_JOYSTICK_LAST
JoySlots == GLFW_JOYSTICK_1..JoyLast
GpButtons == 0..GLFW_GAMEPAD_BUTTON_LAST
GpAxes == 0..GLFW_GAMEPAD_AXIS_LAST

\* GLFWgamepadstate{} : value-initialised
ZeroGp == [buttons |-> [b \in 1..(GpButtonLast + 1) |-> GLFW_RELEASE],
           axes |-> [a \in 1..(GpAxisLast + 1) |-> 0]]

\* st.buttons[b], st.axes[a] of a GLFWgamepadstate
GpButtonAt(st, b) == IF b <= GpButtonLast THEN At(st.buttons, b) ELSE GLFW_RELEASE
GpAxisAt(st, a) == IF a <= GpAxisLast THEN At(st.axes, a) ELSE 0

\* A joystick slot GLFW reports as not present.
AbsentDev == [present |-> FALSE, isGamepad |-> FALSE, buttons |-> <<>>,
              axes |-> <<>>, gp |-> ZeroGp]

\* JoyCache{} : the member initialisers (the name is not modelled)
EmptyCache == [present |-> FALSE, isGamepad |-> FALSE,
               btnPrev |-> <<>>, axisPrev |-> <<>>,
               btnCur |-> <<>>, axisCur |-> <<>>,
               gpPrev |-> ZeroGp, gpCur |-> ZeroGp,
               gpHasPrev |-> FALSE, gpHasCur |-> FALSE]

\* gJoy[jid], and what GLFW reports for slot jid
Cache(joy, jid) == IF jid \in JoySlots THEN joy[jid] ELSE EmptyCache
Device(jid) == IF jid \in JoySlots THEN dev[jid] ELSE AbsentDev

\* ------------------------------------------------------------------------
\* keyPressedEdge / updateKeyPrev
\* ------------------------------------------------------------------------
keyPressedEdge(key) ==
  IF key < 0 \/ key > GLFW_KEY_LAST THEN FALSE
  ELSE key \in gKeyDown /\ key \notin gKeyDownPrev

\* ------------------------------------------------------------------------
\* sampleBinding: reads the keyboard array and GLFW's live joystick state
\* ------------------------------------------------------------------------
\* Variant: the final "return false;" of the axis branch returns v > threshold.
AxisActiveZeroIsPositive(b, v) ==
  IF b.dir < 0 THEN v < -b.threshold ELSE v > b.threshold

\* Variant: the comparisons of the axis branch are turned around.
AxisActiveWithin(b, v) ==
  IF b.dir < 0 THEN v > -b.threshold
  ELSE IF b.dir > 0 THEN v < b.threshold
  ELSE FALSE

AxisActive(b, v) ==
  IF b.dir < 0 THEN v < -b.threshold
  ELSE IF b.dir > 0 THEN v > b.threshold
  ELSE FALSE

\* Variant: a key binding is sampled on the key's rising edge; nothing else
\* is sampled.
sampleBindingKeyEdge(b) == b.type = BT_Key /\ keyPressedEdge(b.code)

sampleBinding(b) ==
  IF b.type = BT_None THEN FALSE
  ELSE IF b.type = BT_Key THEN
    IF b.code < 0 \/ b.code > GLFW_KEY_LAST THEN FALSE ELSE b.code \in gKeyDown
  ELSE IF b.jid < GLFW_JOYSTICK_1 \/ b.jid > GLFW_JOYSTICK_LAST THEN FALSE
  ELSE IF ~Device(b.jid).present THEN FALSE
  ELSE IF b.type = BT_GamepadButton \/ b.type = BT_GamepadAxisDir THEN
    IF ~Device(b.jid).isGamepad THEN FALSE
    ELSE IF b.type = BT_GamepadButton THEN
      IF b.code < 0 \/ b.code > GLFW_GAMEPAD_BUTTON_LAST THEN FALSE
      ELSE GpButtonAt(Device(b.jid).gp, b.code) = GLFW_PRESS
    ELSE
      IF b.code < 0 \/ b.code > GLFW_GAMEPAD_AXIS_LAST THEN FALSE
      ELSE AxisActive(b, GpAxisAt(Device(b.jid).gp, b.code))
  ELSE IF b.type = BT_JoyButton THEN
    IF b.code < 0 \/ b.code >= Size(Device(b.jid).buttons) THEN FALSE
    ELSE At(Device(b.jid).buttons, b.code) = GLFW_PRESS
  ELSE IF b.type = BT_JoyAxisDir THEN
    IF b.code < 0 \/ b.code >= Size(Device(b.jid).axes) THEN FALSE
    ELSE AxisActive(b, At(Device(b.jid).axes, b.code))
  ELSE FALSE

\* VirtualPad::sample
PadSample(pad) == [k \in VKeys |-> sampleBinding(pad[k])]

\* Digital6::packBits
Bit(c, i) == IF c THEN 2 ^ i ELSE 0
\* Variant: up and down shift by each other's amounts.
packBitsUpDownSwapped(d) ==
  (Bit(d[VK_Up], 1) + Bit(d[VK_Down], 0) + Bit(d[VK_Left], 2)
   + Bit(d[VK_Right], 3) + Bit(d[VK_B1], 4) + Bit(d[VK_B2], 5)) % 256

packBits(d) ==
  (Bit(d[VK_Up], 0) + Bit(d[VK_Down], 1) + Bit(d[VK_Left], 2)
   + Bit(d[VK_Right], 3) + Bit(d[VK_B1], 4) + Bit(d[VK_B2], 5)) % 256

\* ------------------------------------------------------------------------
\* updateJoystickCaches: one slot, against what GLFW reports for it
\* ------------------------------------------------------------------------
\* Variant: an absent slot is skipped before anything is refreshed.
UpdateCacheSkipsAbsent(jc, d) ==
  IF ~d.present THEN jc
  ELSE
    [present |-> TRUE, isGamepad |-> d.isGamepad,
     btnPrev |-> jc.btnCur, axisPrev |-> jc.axisCur,
     btnCur |-> d.buttons, axisCur |-> d.axes,
     gpPrev |-> jc.gpCur, gpHasPrev |-> jc.gpHasCur,
     gpCur |-> IF d.isGamepad THEN d.gp ELSE jc.gpCur,
     gpHasCur |-> d.isGamepad]

\* Variant: the raw 'previous' arrays are copied after the 'current' arrays
\* were assigned.
UpdateCachePrevAfterCur(jc, d) ==
  IF ~d.present THEN
    [jc EXCEPT !.present = FALSE, !.isGamepad = FALSE,
               !.btnPrev = <<>>, !.axisPrev = <<>>,
               !.btnCur = <<>>, !.axisCur = <<>>,
               !.gpHasPrev = FALSE, !.gpHasCur = FALSE]
  ELSE
    [present |-> TRUE, isGamepad |-> d.isGamepad,
     btnPrev |-> d.buttons, axisPrev |-> d.axes,
     btnCur |-> d.buttons, axisCur |-> d.axes,
     gpPrev |-> jc.gpCur, gpHasPrev |-> jc.gpHasCur,
     gpCur |-> IF d.isGamepad THEN d.gp ELSE jc.gpCur,
     gpHasCur |-> d.isGamepad]

\* Variant: for an absent slot the two gamepad flags are not reset.
UpdateCacheKeepsGamepadFlags(jc, d) ==
  IF ~d.present THEN
    [jc EXCEPT !.present = FALSE, !.isGamepad = FALSE,
               !.btnPrev = <<>>, !.axisPrev = <<>>,
               !.btnCur = <<>>, !.axisCur = <<>>]
  ELSE
    [present |-> TRUE, isGamepad |-> d.isGamepad,
     btnPrev |-> jc.btnCur, axisPrev |-> jc.axisCur,
     btnCur |-> d.buttons, axisCur |-> d.axes,
     gpPrev |-> jc.gpCur, gpHasPrev |-> jc.gpHasCur,
     gpCur |-> IF d.isGamepad THEN d.gp ELSE jc.gpCur,
     gpHasCur |-> d.isGamepad]

UpdateCache(jc, d) ==
  IF ~d.present THEN
    [jc EXCEPT !.present = FALSE, !.isGamepad = FALSE,
               !.btnPrev = <<>>, !.axisPrev = <<>>,
               !.btnCur = <<>>, !.axisCur = <<>>,
               !.gpHasPrev = FALSE, !.gpHasCur = FALSE]
  ELSE
    [present |-> TRUE, isGamepad |-> d.isGamepad,
     btnPrev |-> jc.btnCur, axisPrev |-> jc.axisCur,
     btnCur |-> d.buttons, axisCur |-> d.axes,
     gpPrev |-> jc.gpCur, gpHasPrev |-> jc.gpHasCur,
     gpCur |-> IF d.isGamepad THEN d.gp ELSE jc.gpCur,
     gpHasCur |-> d.isGamepad]

updateJoystickCaches(joy, d) == [jid \in JoySlots |-> UpdateCache(joy[jid], d[jid])]

\* ------------------------------------------------------------------------
\* Learning state: clearBinding, setDefaultBindings
\* ------------------------------------------------------------------------
clearBinding(pad, padIdx, k) == [pad EXCEPT ![padIdx][k] = NoBinding]

DefaultKey(c) == Binding(BT_Key, -1, c, 0, 0)

setDefaultBindings(pad) ==
  [pad EXCEPT
     ![0] = [k \in VKeys |->
               DefaultKey(CASE k = VK_Up -> GLFW_KEY_W [] k = VK_Down -> GLFW_KEY_S
                            [] k = VK_Left -> GLFW_KEY_A [] k = VK_Right -> GLFW_KEY_D
                            [] k = VK_B1 -> GLFW_KEY_J [] OTHER -> GLFW_KEY_K)],
     ![1] = [k \in VKeys |->
               DefaultKey(CASE k = VK_Up -> GLFW_KEY_UP [] k = VK_Down -> GLFW_KEY_DOWN
                            [] k = VK_Left -> GLFW_KEY_LEFT [] k = VK_Right -> GLFW_KEY_RIGHT
                            [] k = VK_B1 -> GLFW_KEY_N [] OTHER -> GLFW_KEY_M)]]

\* ------------------------------------------------------------------------
\* The five detectors.  Each scans in ascending order and returns at the
\* first hit: the least element of the set of hits.
\* ------------------------------------------------------------------------
NoHit == [found |-> FALSE, jid |-> -1, code |-> -1, dir |-> 0]

\* Variant: the last of the set, as loops that do not return at a hit leave it.
LastHit(H) ==
  IF H = {} THEN NoHit
  ELSE LET h == CHOOSE x \in H : \A y \in H :
                   y[1] < x[1] \/ (y[1] = x[1] /\ y[2] <= x[2])
       IN [found |-> TRUE, jid |-> h[1], code |-> h[2], dir |-> h[3]]

\* The first of a set of <<jid, index, dir>> in (jid, index) order.
FirstHit(H) ==
  IF H = {} THEN NoHit
  ELSE LET h == CHOOSE x \in H : \A y \in H :
                   x[1] < y[1] \/ (x[1] = y[1] /\ x[2] <= y[2])
       IN [found |-> TRUE, jid |-> h[1], code |-> h[2], dir |-> h[3]]

detectAnyKeyPress ==
  LET E == {k \in gKeyDown : k >= 0 /\ k <= GLFW_KEY_LAST /\ k \notin gKeyDownPrev}
  IN IF E = {} THEN NoHit
     ELSE [found |-> TRUE, jid |-> -1, dir |-> 0,
           code |-> CHOOSE k \in E : \A m \in E : k <= m]

\* The gamepad slots the loops of the two gamepad detectors do not skip.
GamepadSlots(joy) ==
  {jid \in Jids : Cache(joy, jid).present /\ Cache(joy, jid).isGamepad
                  /\ Cache(joy, jid).gpHasCur /\ Cache(joy, jid).gpHasPrev}

GamepadButtonHits(joy, jid) ==
  {b \in GpButtons : GpButtonAt(Cache(joy, jid).gpCur, b) = GLFW_PRESS
                     /\ GpButtonAt(Cache(joy, jid).gpPrev, b) # GLFW_PRESS}

detectGamepadButtonPress(joy) ==
  FirstHit(UNION {{<<jid, b, 0>> : b \in GamepadButtonHits(joy, jid)} :
                  jid \in GamepadSlots(joy)})

\* Variant: the test of the previous sample is left out.
AxisMoveNoDeadZone(prev, cur) ==
  IF cur > gLearnThreshold THEN 1
  ELSE IF cur < -gLearnThreshold THEN -1 ELSE 0

\* "Detect crossing threshold from near zero": the direction, or 0 for none.
AxisMove(prev, cur) ==
  IF Abs(prev) < DeadZone
  THEN IF cur > gLearnThreshold THEN 1
       ELSE IF cur < -gLearnThreshold THEN -1 ELSE 0
  ELSE 0

GamepadAxisHits(joy, jid) ==
  {a \in GpAxes : AxisMove(GpAxisAt(Cache(joy, jid).gpPrev, a), GpAxisAt(Cache(joy, jid).gpCur, a)) # 0}

detectGamepadAxisMove(joy) ==
  FirstHit(UNION {{<<jid, a, AxisMove(GpAxisAt(Cache(joy, jid).gpPrev, a),
                                      GpAxisAt(Cache(joy, jid).gpCur, a))>> :
                   a \in GamepadAxisHits(joy, jid)} : jid \in GamepadSlots(joy)})

\* The slots the raw button loop does not skip, and likewise the raw axis loop.
RawButtonSlots(joy) ==
  {jid \in Jids : Cache(joy, jid).present /\ Size(Cache(joy, jid).btnPrev) = Size(Cache(joy, jid).btnCur)}

RawAxisSlots(joy) ==
  {jid \in Jids : Cache(joy, jid).present /\ Size(Cache(joy, jid).axisPrev) = Size(Cache(joy, jid).axisCur)}

JoyButtonHits(joy, jid) ==
  {b \in 0..(Size(Cache(joy, jid).btnCur) - 1) :
     At(Cache(joy, jid).btnCur, b) = GLFW_PRESS /\ At(Cache(joy, jid).btnPrev, b) # GLFW_PRESS}

detectJoyButtonPress(joy) ==
  FirstHit(UNION {{<<jid, b, 0>> : b \in JoyButtonHits(joy, jid)} :
                  jid \in RawButtonSlots(joy)})

JoyAxisHits(joy, jid) ==
  {a \in 0..(Size(Cache(joy, jid).axisCur) - 1) :
     AxisMove(At(Cache(joy, jid).axisPrev, a), At(Cache(joy, jid).axisCur, a)) # 0}

detectJoyAxisMove(joy) ==
  FirstHit(UNION {{<<jid, a, AxisMove(At(Cache(joy, jid).axisPrev, a), At(Cache(joy, jid).axisCur, a))>> :
                   a \in JoyAxisHits(joy, jid)} : jid \in RawAxisSlots(joy)})

\* ------------------------------------------------------------------------
\* applyLearningIfTriggered, once armed: the binding the first matching
\* rule builds from "Binding b;", or no match.
\* ------------------------------------------------------------------------
NoMatch == [found |-> FALSE, b |-> NoBinding]
Match(t, h, th) == [found |-> TRUE, b |-> Binding(t, h.jid, h.code, h.dir, th)]

\* Variant: the axis rules store twice the threshold, 0.90.
LearnFromJoysticksHighThreshold(joy) ==
  LET gb == detectGamepadButtonPress(joy)
      ga == detectGamepadAxisMove(joy)
      jb == detectJoyButtonPress(joy)
      ja == detectJoyAxisMove(joy)
  IN IF gb.found THEN Match(BT_GamepadButton, gb, DefaultThreshold)
     ELSE IF ga.found THEN Match(BT_GamepadAxisDir, ga, 2 * LearnedThreshold)
     ELSE IF jb.found THEN Match(BT_JoyButton, jb, DefaultThreshold)
     ELSE IF ja.found THEN Match(BT_JoyAxisDir, ja, 2 * LearnedThreshold)
     ELSE NoMatch

LearnFromJoysticks(joy) ==
  LET gb == detectGamepadButtonPress(joy)
      ga == detectGamepadAxisMove(joy)
      jb == detectJoyButtonPress(joy)
      ja == detectJoyAxisMove(joy)
  IN IF gb.found THEN Match(BT_GamepadButton, gb, DefaultThreshold)
     ELSE IF ga.found THEN Match(BT_GamepadAxisDir, ga, LearnedThreshold)
     ELSE IF jb.found THEN Match(BT_JoyButton, jb, DefaultThreshold)
     ELSE IF ja.found THEN Match(BT_JoyAxisDir, ja, LearnedThreshold)
     ELSE NoMatch

\* Variant: the joystick rules are tried before the keyboard rule.
LearnMatchJoysticksFirst(joy) ==
  LET kb == detectAnyKeyPress
      js == LearnFromJoysticks(joy)
  IN IF js.found THEN js
     ELSE IF kb.found THEN Match(BT_Key, kb, DefaultThreshold)
     ELSE NoMatch

LearnMatch(joy) ==
  LET kb == detectAnyKeyPress
  IN IF kb.found THEN Match(BT_Key, kb, DefaultThreshold)
     ELSE LearnFromJoysticks(joy)

\* Variant: a match binds but "gLearning = false;" is left out.
applyLearningStaysArmed(pad, joy, learning, editPad, editKey) ==
  IF ~learning THEN [pad |-> pad, learning |-> learning]
  ELSE LET m == LearnMatch(joy)
       IN IF m.found
          THEN [pad |-> [pad EXCEPT ![editPad][editKey] = m.b], learning |-> learning]
          ELSE [pad |-> pad, learning |-> learning]

\* The new <<gPad, gLearning>>.
applyLearningIfTriggered(pad, joy, learning, editPad, editKey) ==
  IF ~learning THEN [pad |-> pad, learning |-> learning]
  ELSE LET m == LearnMatch(joy)
       IN IF m.found
          THEN [pad |-> [pad EXCEPT ![editPad][editKey] = m.b], learning |-> FALSE]
          ELSE [pad |-> pad, learning |-> learning]

\* ------------------------------------------------------------------------
\* Save / Load mapping.  padmap.txt is fs = [state, lines]: state "absent"
\* (no file; fopen "wb" creates it), "present", or "denied" (neither fopen
\* succeeds).  A line is the seven fields fscanf converts, or a bad line:
\* one holding a token fscanf's "%d"/"%f" cannot convert.
\* ------------------------------------------------------------------------
Line(p, k, t, j, c, d, th) ==
  [bad |-> FALSE, p |-> p, k |-> k, type |-> t, jid |-> j, code |-> c, dir |-> d, th |-> th]
BadLine == [bad |-> TRUE, p |-> 0, k |-> 0, type |-> 0, jid |-> 0, code |-> 0, dir |-> 0, th |-> 0]

NoFile == [state |-> "absent", lines |-> <<>>]
Denied == [state |-> "denied", lines |-> <<>>]

\* "%.6f": the value rounded to six decimals, ties away from zero
Fmt6(th) ==
  IF th >= 0 THEN ((th + 5) \div 10) * 10 ELSE -(((5 - th) \div 10) * 10)

\* Variant: b.code and b.jid change places in the fprintf arguments.
SaveLinesSwapped(pad) ==
  [i \in 1..(2 * VK_Count) |->
     LET p == (i - 1) \div VK_Count
         k == (i - 1) % VK_Count
         b == pad[p][k]
     IN Line(p, k, b.type, b.code, b.jid, b.dir, Fmt6(b.threshold))]

\* The twelve lines the fprintf loop writes, pad-major.
SaveLines(pad) ==
  [i \in 1..(2 * VK_Count) |->
     LET p == (i - 1) \div VK_Count
         k == (i - 1) % VK_Count
         b == pad[p][k]
     IN Line(p, k, b.type, b.jid, b.code, b.dir, Fmt6(b.threshold))]

saveMappings(f, pad) ==
  IF f.state = "denied" THEN [ok |-> FALSE, fs |-> f]
  ELSE [ok |-> TRUE, fs |-> [state |-> "present", lines |-> SaveLines(pad)]]

NonePads == [p \in Pads |-> [k \in VKeys |-> NoBinding]]

\* The while (true) loop of loadMappings from line i on.
RECURSIVE LoadLoop(_, _, _)
LoadLoop(lines, i, pad) ==
  IF i > Len(lines) THEN pad
  ELSE LET l == lines[i]
       IN IF l.bad THEN pad
          ELSE IF l.p < 0 \/ l.p >= 2 THEN LoadLoop(lines, i + 1, pad)
          ELSE IF l.k < 0 \/ l.k >= VK_Count THEN LoadLoop(lines, i + 1, pad)
          ELSE LoadLoop(lines, i + 1,
                        [pad EXCEPT ![l.p][l.k] = Binding(l.type, l.jid, l.code, l.dir, l.th)])

\* Variant: the slots are reset before the fopen result is tested.
loadMappingsResetsFirst(f, pad) ==
  IF f.state # "present" THEN [ok |-> FALSE, pad |-> NonePads]
  ELSE [ok |-> TRUE, pad |-> LoadLoop(f.lines, 1, NonePads)]

\* Variant: the reset loop is left out, so lines override the slots one by one.
loadMappingsKeepsSlots(f, pad) ==
  IF f.state # "present" THEN [ok |-> FALSE, pad |-> pad]
  ELSE [ok |-> TRUE, pad |-> LoadLoop(f.lines, 1, pad)]

loadMappings(f, pad) ==
  IF f.state # "present" THEN [ok |-> FALSE, pad |-> pad]
  ELSE [ok |-> TRUE, pad |-> LoadLoop(f.lines, 1, NonePads)]

\* ------------------------------------------------------------------------
\* handleHotkeysOnce: the ifs in source order, each on the result of the
\* ones before it.
\* ------------------------------------------------------------------------
\* Variant: TAB toggles while it is down, not on its edge.
EditPadAfterHeldTab(ep) ==
  LET a == IF keyPressedEdge(GLFW_KEY_F1) THEN 0 ELSE ep
      b == IF keyPressedEdge(GLFW_KEY_F2) THEN 1 ELSE a
  IN IF GLFW_KEY_TAB \in gKeyDown THEN 1 - b ELSE b

EditPadAfter(ep) ==
  LET a == IF keyPressedEdge(GLFW_KEY_F1) THEN 0 ELSE ep
      b == IF keyPressedEdge(GLFW_KEY_F2) THEN 1 ELSE a
  IN IF keyPressedEdge(GLFW_KEY_TAB) THEN 1 - b ELSE b

EditKeyAfter(ek) ==
  LET a == IF keyPressedEdge(GLFW_KEY_1) THEN VK_Up ELSE ek
      b == IF keyPressedEdge(GLFW_KEY_2) THEN VK_Down ELSE a
      c == IF keyPressedEdge(GLFW_KEY_3) THEN VK_Left ELSE b
      d == IF keyPressedEdge(GLFW_KEY_4) THEN VK_Right ELSE c
      e == IF keyPressedEdge(GLFW_KEY_5) THEN VK_B1 ELSE d
  IN IF keyPressedEdge(GLFW_KEY_6) THEN VK_B2 ELSE e

LearningAfterSpace(l) == IF keyPressedEdge(GLFW_KEY_SPACE) THEN TRUE ELSE l

\* Variant: the clear branch resets the slot but not gLearning.
handleHotkeysClearKeepsArmed(f, pad, ep, ek, l) ==
  LET sv == IF keyPressedEdge(GLFW_KEY_F5) THEN saveMappings(f, pad)
            ELSE [ok |-> TRUE, fs |-> f]
      ld == IF keyPressedEdge(GLFW_KEY_F9) THEN loadMappings(sv.fs, pad)
            ELSE [ok |-> TRUE, pad |-> pad]
      ep2 == EditPadAfter(ep)
      ek2 == EditKeyAfter(ek)
      clr == keyPressedEdge(GLFW_KEY_BACKSPACE)
  IN [fs |-> sv.fs,
      pad |-> IF clr THEN clearBinding(ld.pad, ep2, ek2) ELSE ld.pad,
      editPad |-> ep2, editKey |-> ek2,
      learning |-> LearningAfterSpace(l)]

handleHotkeysOnce(f, pad, ep, ek, l) ==
  LET sv == IF keyPressedEdge(GLFW_KEY_F5) THEN saveMappings(f, pad)
            ELSE [ok |-> TRUE, fs |-> f]
      ld == IF keyPressedEdge(GLFW_KEY_F9) THEN loadMappings(sv.fs, pad)
            ELSE [ok |-> TRUE, pad |-> pad]
      ep2 == EditPadAfter(ep)
      ek2 == EditKeyAfter(ek)
      l2 == LearningAfterSpace(l)
      clr == keyPressedEdge(GLFW_KEY_BACKSPACE)
  IN [fs |-> sv.fs,
      pad |-> IF clr THEN clearBinding(ld.pad, ep2, ek2) ELSE ld.pad,
      editPad |-> ep2, editKey |-> ek2,
      learning |-> IF clr THEN FALSE ELSE l2]

\* ------------------------------------------------------------------------
\* The environment of a run: E.keys, the sets of keys the user may hold
\* after a poll; E.taps, whether ESC may be pressed and released within one
\* poll; E.devs, what GLFW may report for the joystick slots; E.files, what
\* padmap.txt may be when something other than the program wrote it.
\* ------------------------------------------------------------------------
KeySets(K) == {S \in SUBSET K : Cardinality(S) <= MaxDown}

NoJoysticks == [jid \in JoySlots |-> AbsentDev]

\* ------------------------------------------------------------------------
\* main()
\* ------------------------------------------------------------------------
NoDig == [p \in Pads |-> [k \in VKeys |-> FALSE]]

Init(E) ==
  /\ pc = "start"
  /\ exitCode = -1
  /\ shouldClose = FALSE
  /\ gKeyDown = {}
  /\ gKeyDownPrev = {}
  /\ gPad = NonePads
  /\ gJoy = [jid \in JoySlots |-> EmptyCache]
  /\ gEditPad = 0
  /\ gEditKey = VK_Up
  /\ gLearning = FALSE
  /\ dig = NoDig
  /\ dev = NoJoysticks
  /\ fs \in E.files
  /\ keysSeen = {}
  /\ devSeen = [jid \in JoySlots |-> FALSE]
  /\ padTick = NonePads
  /\ editTick = <<0, VK_Up, FALSE>>
  /\ armSeen = FALSE
  /\ devPrior = NoJoysticks

\* glfwInit or glfwCreateWindow fails: return 1
StartupFails ==
  /\ pc = "start"
  /\ pc' = "exited"
  /\ exitCode' = 1
  /\ UNCHANGED <<shouldClose, gKeyDown, gKeyDownPrev, gPad, gJoy, gEditPad, gEditKey,
                 gLearning, dig, dev, fs, keysSeen, devSeen, padTick, editTick, armSeen,
                 devPrior>>

\* setDefaultBindings(); loadMappings();
Startup ==
  /\ pc = "start"
  /\ gPad' = loadMappings(fs, setDefaultBindings(gPad)).pad
  /\ pc' = "loop"
  /\ UNCHANGED <<exitCode, shouldClose, gKeyDown, gKeyDownPrev, gJoy, gEditPad, gEditKey,
                 gLearning, dig, dev, fs, keysSeen, devSeen, padTick, editTick, armSeen,
                 devPrior>>

\* Variant: the loop condition is not tested.
LoopTestNeverLeaves ==
  /\ pc = "loop"
  /\ pc' = "poll" /\ exitCode' = exitCode
  /\ UNCHANGED <<shouldClose, gKeyDown, gKeyDownPrev, gPad, gJoy, gEditPad, gEditKey,
                 gLearning, dig, dev, fs, keysSeen, devSeen, padTick, editTick, armSeen,
                 devPrior>>

\* while (!glfwWindowShouldClose(w)) ... return 0
LoopTest ==
  /\ pc = "loop"
  /\ IF shouldClose THEN pc' = "exited" /\ exitCode' = 0
     ELSE pc' = "poll" /\ exitCode' = exitCode
  /\ UNCHANGED <<shouldClose, gKeyDown, gKeyDownPrev, gPad, gJoy, gEditPad, gEditKey,
                 gLearning, dig, dev, fs, keysSeen, devSeen, padTick, editTick, armSeen,
                 devPrior>>

\* glfwPollEvents(): onKey for every key event since the last poll, whose
\* net effect is the new set of keys down, ks; ESC going down closes the
\* window.  The joysticks and the file change between frames.
PollEvents(E) ==
  /\ pc = "poll"
  /\ \E ks \in E.keys, tap \in E.taps :
       /\ gKeyDown' = ks
       /\ shouldClose' = (shouldClose \/ tap
                          \/ (GLFW_KEY_ESCAPE \in ks /\ GLFW_KEY_ESCAPE \notin gKeyDown))
  /\ dev' \in E.devs
  /\ fs' \in E.files \cup {fs}
  /\ keysSeen' = gKeyDown
  /\ devSeen' = [jid \in JoySlots |-> dev[jid].present]
  /\ padTick' = gPad
  /\ editTick' = <<gEditPad, gEditKey, gLearning>>
  /\ armSeen' = (gKeyDown \ keysSeen = {GLFW_KEY_SPACE})
  /\ devPrior' = dev
  /\ pc' = "caches"
  /\ UNCHANGED <<exitCode, gKeyDownPrev, gPad, gJoy, gEditPad, gEditKey, gLearning, dig>>

UpdateJoystickCaches ==
  /\ pc = "caches"
  /\ gJoy' = updateJoystickCaches(gJoy, dev)
  /\ pc' = "hotkeys"
  /\ UNCHANGED <<exitCode, shouldClose, gKeyDown, gKeyDownPrev, gPad, gEditPad, gEditKey,
                 gLearning, dig, dev, fs, keysSeen, devSeen, padTick, editTick, armSeen,
                 devPrior>>

HandleHotkeysOnce ==
  /\ pc = "hotkeys"
  /\ LET r == handleHotkeysOnce(fs, gPad, gEditPad, gEditKey, gLearning)
     IN /\ fs' = r.fs
        /\ gPad' = r.pad
        /\ gEditPad' = r.editPad
        /\ gEditKey' = r.editKey
        /\ gLearning' = r.learning
  /\ pc' = "learn"
  /\ UNCHANGED <<exitCode, shouldClose, gKeyDown, gKeyDownPrev, gJoy, dig, dev,
                 keysSeen, devSeen, padTick, editTick, armSeen,
                 devPrior>>

\* Variant: learning runs on the selection the frame began with.
ApplyLearningOnOldSelection ==
  /\ pc = "learn"
  /\ LET r == applyLearningIfTriggered(gPad, gJoy, gLearning, editTick[1], editTick[2])
     IN /\ gPad' = r.pad
        /\ gLearning' = r.learning
  /\ pc' = "sample"
  /\ UNCHANGED <<exitCode, shouldClose, gKeyDown, gKeyDownPrev, gJoy, gEditPad, gEditKey,
                 dig, dev, fs, keysSeen, devSeen, padTick, editTick, armSeen,
                 devPrior>>

ApplyLearningIfTriggered ==
  /\ pc = "learn"
  /\ LET r == applyLearningIfTriggered(gPad, gJoy, gLearning, gEditPad, gEditKey)
     IN /\ gPad' = r.pad
        /\ gLearning' = r.learning
  /\ pc' = "sample"
  /\ UNCHANGED <<exitCode, shouldClose, gKeyDown, gKeyDownPrev, gJoy, gEditPad, gEditKey,
                 dig, dev, fs, keysSeen, devSeen, padTick, editTick, armSeen,
                 devPrior>>

\* Digital6 s0 = gPad[0].sample(); Digital6 s1 = gPad[1].sample();
SamplePads ==
  /\ pc = "sample"
  /\ dig' = [p \in Pads |-> PadSample(gPad[p])]
  /\ pc' = "keyprev"
  /\ UNCHANGED <<exitCode, shouldClose, gKeyDown, gKeyDownPrev, gPad, gJoy, gEditPad,
                 gEditKey, gLearning, dev, fs, keysSeen, devSeen, padTick, editTick, armSeen,
                 devPrior>>

\* updateKeyPrev(), the last statement of the loop body; s0 and s1 end with it.
\* Variant: the copy is not made.
updateKeyPrevSkipped == gKeyDownPrev

updateKeyPrev == gKeyDown

UpdateKeyPrev ==
  /\ pc = "keyprev"
  /\ gKeyDownPrev' = updateKeyPrev
  /\ dig' = NoDig
  /\ pc' = "loop"
  /\ UNCHANGED <<exitCode, shouldClose, gKeyDown, gPad, gJoy, gEditPad, gEditKey,
                 gLearning, dev, fs, keysSeen, devSeen, padTick, editTick, armSeen,
                 devPrior>>

Frame(E) ==
  \/ StartupFails
  \/ Startup
  \/ LoopTest
  \/ PollEvents(E)
  \/ UpdateJoystickCaches
  \/ HandleHotkeysOnce
  \/ ApplyLearningIfTriggered
  \/ SamplePads
  \/ UpdateKeyPrev

\* ------------------------------------------------------------------------
\* Keyboard runs: the hotkeys and one bindable key, no joystick, no file.
\* ------------------------------------------------------------------------
KbdKeys == {GLFW_KEY_SPACE, GLFW_KEY_BACKSPACE, GLFW_KEY_TAB, GLFW_KEY_6}

EnvKbd == [keys |-> KeySets(KbdKeys), taps |-> {FALSE},
           devs |-> {NoJoysticks}, files |-> {NoFile}]

InitKbd == Init(EnvKbd)
NextKbd == Frame(EnvKbd)
SpecKbd == InitKbd /\ [][NextKbd]_vars

\* ------------------------------------------------------------------------
\* Joystick runs: SPACE, and on slot GLFW_JOYSTICK_1 nothing, a raw stick or
\* a structured gamepad, each with one raw button and one raw axis; of the
\* gamepad view, button 0 and axis 0 move.
\* ------------------------------------------------------------------------
GpState(gb, gv) ==
  [buttons |-> [b \in 1..(GpButtonLast + 1) |-> IF b = 1 THEN gb ELSE GLFW_RELEASE],
   axes |-> [a \in 1..(GpAxisLast + 1) |-> IF a = 1 THEN gv ELSE 0]]

RawStick(rb, rv) ==
  [present |-> TRUE, isGamepad |-> FALSE, buttons |-> <<rb>>, axes |-> <<rv>>,
   gp |-> ZeroGp]

Gamepad(rb, rv, gb, gv) ==
  [present |-> TRUE, isGamepad |-> TRUE, buttons |-> <<rb>>, axes |-> <<rv>>,
   gp |-> GpState(gb, gv)]

OnSlot1(d) == [jid \in JoySlots |-> IF jid = GLFW_JOYSTICK_1 THEN d ELSE AbsentDev]

Buttons == {GLFW_RELEASE, GLFW_PRESS}
JoyAxisValues == {0, 8000000}

JoyDevs ==
  {AbsentDev}
  \cup {RawStick(rb, rv) : rb \in Buttons, rv \in JoyAxisValues}
  \cup {Gamepad(rb, rv, gb, gv) : rb \in Buttons, rv \in JoyAxisValues,
                                  gb \in Buttons, gv \in JoyAxisValues}

EnvJoy == [keys |-> KeySets({GLFW_KEY_SPACE}), taps |-> {FALSE},
           devs |-> {OnSlot1(d) : d \in JoyDevs}, files |-> {NoFile}]

InitJoy == Init(EnvJoy)
NextJoy == Frame(EnvJoy)
SpecJoy == InitJoy /\ [][NextJoy]_vars

\* ------------------------------------------------------------------------
\* Axis runs: the keys that select pad 2 / B2 and arm learning, and on slot
\* GLFW_JOYSTICK_1 nothing or a gamepad whose axis 0 is at rest or at +-0.80.
\* ------------------------------------------------------------------------
AxisValues == {0, 8000000, -8000000}

EnvAxis == [keys |-> KeySets({GLFW_KEY_SPACE, GLFW_KEY_F2, GLFW_KEY_6}),
            taps |-> {FALSE},
            devs |-> {OnSlot1(AbsentDev)}
                     \cup {OnSlot1(Gamepad(GLFW_RELEASE, v, GLFW_RELEASE, v)) : v \in AxisValues},
            files |-> {NoFile}]

InitAxis == Init(EnvAxis)
NextAxis == Frame(EnvAxis)
SpecAxis == InitAxis /\ [][NextAxis]_vars

\* ------------------------------------------------------------------------
\* File runs: the save, load and clear hotkeys; padmap.txt missing,
\* unopenable, or up to MaxLines lines, each a good record for pad index 1 /
\* B2 (its threshold written with seven decimals), a record with pad index
\* 2, a record with control ordinal 6, or a bad line.
\* ------------------------------------------------------------------------
GoodLine == Line(1, VK_B2, BT_GamepadAxisDir, 0, 0, 1, 4500004)
PadOutOfRange == Line(2, VK_Up, BT_Key, -1, GLFW_KEY_W, 0, 0)
ControlOutOfRange == Line(0, VK_Count, BT_Key, -1, GLFW_KEY_W, 0, 0)
LineKinds == {GoodLine, PadOutOfRange, ControlOutOfRange, BadLine}

ForeignFiles ==
  {[state |-> "present", lines |-> t] :
     t \in UNION {[1..n -> LineKinds] : n \in 0..MaxLines}}

EnvFile == [keys |-> KeySets({GLFW_KEY_F5, GLFW_KEY_F9, GLFW_KEY_BACKSPACE}),
            taps |-> {FALSE}, devs |-> {NoJoysticks},
            files |-> {NoFile, Denied} \cup ForeignFiles]

InitFile == Init(EnvFile)
NextFile == Frame(EnvFile)
SpecFile == InitFile /\ [][NextFile]_vars

\* ------------------------------------------------------------------------
\* Vocabulary of the properties
\* ------------------------------------------------------------------------
\* The keys that went down in this frame's poll, by the user's own account.
Pressed == gKeyDown \ keysSeen

\* The steps of a frame that read the snapshots.
Consuming == pc \in {"hotkeys", "learn", "sample"}

Selected(pad) == pad[gEditPad][gEditKey]

OtherSlotsSame(a, b, p, k) ==
  \A q \in Pads, j \in VKeys : (q # p \/ j # k) => a[q][j] = b[q][j]

KeySpace == Binding(BT_Key, -1, GLFW_KEY_SPACE, 0, DefaultThreshold)

\* C1: a frame in which SPACE is the only key newly pressed, BACKSPACE is not
\* down and no joystick input qualifies ends with learning armed and the
\* selected slot as it was when the frame began.
C1_SpaceArmsForNextInput ==
  (pc = "sample" /\ Pressed = {GLFW_KEY_SPACE} /\ GLFW_KEY_BACKSPACE \notin gKeyDown
   /\ ~LearnFromJoysticks(gJoy).found)
  => (gLearning /\ Selected(gPad) = Selected(padTick))

\* C4: the learning step writes at most the selected slot, leaves the
\* selection alone, changes a binding only when it was armed and then disarms,
\* and when armed with a qualifying input it does bind and disarm.
C4_OneBindingInSelectedSlot ==
  [][pc = "learn" =>
       /\ OtherSlotsSame(gPad', gPad, gEditPad, gEditKey)
       /\ gEditPad' = gEditPad /\ gEditKey' = gEditKey
       /\ (gPad' # gPad => gLearning /\ ~gLearning')
       /\ (~gLearning => gPad' = gPad /\ ~gLearning')
       /\ (gLearning /\ Pressed # {} =>
             ~gLearning' /\ gPad'[gEditPad][gEditKey].type = BT_Key)]_vars

\* C4's case: a frame that armed learning with pad 1 selected has bound the
\* selected slot of pad 1, pad 0 keeps its default, and learning is disarmed.
C4_Witness ==
  /\ pc = "sample" /\ gEditPad = 1 /\ ~gLearning
  /\ Selected(gPad) = KeySpace /\ Selected(padTick) # KeySpace
  /\ gPad[0] = padTick[0]

\* C5: a key that was already down in the previous frame gives no
\* just-pressed signal in this one, a key that was up and is down gives one,
\* the key detectAnyKeyPress reports is newly down, and a held TAB (with no
\* new F1/F2) leaves the selected pad where it is.
C5_EdgeOncePerPress ==
  [][pc = "hotkeys" =>
       /\ \A k \in gKeyDown \cup keysSeen :
            keyPressedEdge(k) = (k \in gKeyDown /\ k \notin keysSeen)
       /\ detectAnyKeyPress.found = (Pressed # {})
       /\ (detectAnyKeyPress.found => detectAnyKeyPress.code \in Pressed)
       /\ (GLFW_KEY_TAB \in keysSeen /\ Pressed \cap {GLFW_KEY_F1, GLFW_KEY_F2} = {}
             => gEditPad' = gEditPad)
       /\ (GLFW_KEY_TAB \in Pressed /\ Pressed \cap {GLFW_KEY_F1, GLFW_KEY_F2} = {}
             => gEditPad' = 1 - gEditPad)]_vars

\* C5's case: TAB held into a second frame, the pad toggled once.
C5_Witness ==
  /\ pc = "learn" /\ GLFW_KEY_TAB \in keysSeen /\ GLFW_KEY_TAB \in gKeyDown
  /\ gEditPad = 1 /\ editTick[1] = 1

\* C7: a frame with a rising edge of BACKSPACE (and no load) ends with the
\* selected slot None, learning disarmed and every other slot as the frame
\* found it; and a slot that is None samples inactive.
C7_ClearBinding ==
  /\ (pc \in {"learn", "sample", "keyprev"} /\ GLFW_KEY_BACKSPACE \in Pressed
      /\ GLFW_KEY_F9 \notin Pressed)
     => /\ Selected(gPad) = NoBinding
        /\ ~gLearning
        /\ OtherSlotsSame(gPad, padTick, gEditPad, gEditKey)
  /\ pc = "keyprev" =>
       \A p \in Pads, k \in VKeys : gPad[p][k].type = BT_None => ~dig[p][k]

\* C7's case: SPACE and BACKSPACE went down together on a bound slot.
C7_Witness ==
  /\ pc = "keyprev" /\ {GLFW_KEY_SPACE, GLFW_KEY_BACKSPACE} \subseteq Pressed
  /\ Selected(padTick).type = BT_Key /\ Selected(gPad) = NoBinding

\* The sources with a qualifying event in the snapshots of this frame.
KeyEvent == Pressed # {}
GamepadButtonEvent == \E jid \in GamepadSlots(gJoy) : GamepadButtonHits(gJoy, jid) # {}
GamepadAxisEvent == \E jid \in GamepadSlots(gJoy) : GamepadAxisHits(gJoy, jid) # {}
JoyButtonEvent == \E jid \in RawButtonSlots(gJoy) : JoyButtonHits(gJoy, jid) # {}
JoyAxisEvent == \E jid \in RawAxisSlots(gJoy) : JoyAxisHits(gJoy, jid) # {}

\* C2: an armed learning step binds the kind of the first source, in the
\* order key, gamepad button, gamepad axis, raw button, raw axis, that has a
\* qualifying event, and binds nothing when none has.
C2_LearningPriority ==
  [][pc = "learn" /\ gLearning =>
       LET t == gPad'[gEditPad][gEditKey].type
           bound == ~gLearning'
       IN /\ KeyEvent => bound /\ t = BT_Key
          /\ ~KeyEvent /\ GamepadButtonEvent => bound /\ t = BT_GamepadButton
          /\ ~KeyEvent /\ ~GamepadButtonEvent /\ GamepadAxisEvent
               => bound /\ t = BT_GamepadAxisDir
          /\ ~KeyEvent /\ ~GamepadButtonEvent /\ ~GamepadAxisEvent /\ JoyButtonEvent
               => bound /\ t = BT_JoyButton
          /\ ~KeyEvent /\ ~GamepadButtonEvent /\ ~GamepadAxisEvent /\ ~JoyButtonEvent
             /\ JoyAxisEvent => bound /\ t = BT_JoyAxisDir
          /\ ~KeyEvent /\ ~GamepadButtonEvent /\ ~GamepadAxisEvent /\ ~JoyButtonEvent
             /\ ~JoyAxisEvent => ~bound /\ gPad' = gPad]_vars

\* C2's case: a key and a gamepad button went down in the same frame, and the
\* learning step bound the key.
C2_Witness ==
  /\ pc = "sample" /\ GLFW_KEY_SPACE \in Pressed /\ GamepadButtonEvent
  /\ ~gLearning /\ Selected(gPad) = KeySpace /\ Selected(padTick) # KeySpace

\* C6: in a frame whose refresh finds a slot absent that was present in the
\* frame before, none of the four joystick detectors reports that slot.
C6_DisconnectNoEdges ==
  Consuming =>
    \A jid \in JoySlots :
      devSeen[jid] /\ ~dev[jid].present =>
        /\ ~(detectGamepadButtonPress(gJoy).found /\ detectGamepadButtonPress(gJoy).jid = jid)
        /\ ~(detectGamepadAxisMove(gJoy).found /\ detectGamepadAxisMove(gJoy).jid = jid)
        /\ ~(detectJoyButtonPress(gJoy).found /\ detectJoyButtonPress(gJoy).jid = jid)
        /\ ~(detectJoyAxisMove(gJoy).found /\ detectJoyAxisMove(gJoy).jid = jid)
        /\ ~LearnFromJoysticks(gJoy).found

\* C6's case: a gamepad unplugged with its button 0 held and its axis 0
\* deflected, in a frame that arms learning.
C6_Witness ==
  /\ pc = "learn" /\ devSeen[GLFW_JOYSTICK_1] /\ ~dev[GLFW_JOYSTICK_1].present
  /\ GpButtonAt(gJoy[GLFW_JOYSTICK_1].gpCur, 0) = GLFW_PRESS
  /\ GpAxisAt(gJoy[GLFW_JOYSTICK_1].gpCur, 0) = 8000000
  /\ gLearning

\* Gamepad axis a of slot jid went from rest to v between the two snapshots.
GamepadAxisWent(jid, a, v) ==
  /\ jid \in GamepadSlots(gJoy)
  /\ GpAxisAt(gJoy[jid].gpPrev, a) = 0
  /\ GpAxisAt(gJoy[jid].gpCur, a) = v

\* C3: learning armed for pad index 1 / B2 by SPACE in the frame before; in
\* this frame no key and no gamepad button goes down and a gamepad axis goes
\* from 0.0 to 0.80 (to -0.80): the frame ends with the slot bound to that
\* axis with sign +1 (-1) and threshold 0.45, and learning disarmed.
C3_AxisLearningScenario ==
  \A jid \in JoySlots, a \in 0..GpAxisLast, sgn \in {-1, 1} :
    (pc = "sample" /\ armSeen /\ editTick[1] = 1 /\ editTick[2] = VK_B2
     /\ ~KeyEvent /\ ~GamepadButtonEvent /\ GamepadAxisWent(jid, a, sgn * 8000000))
    => /\ gPad[1][VK_B2] = Binding(BT_GamepadAxisDir, jid, a, sgn, 4500000)
       /\ ~gLearning

\* What a load of these lines is to leave in slot (p, k): the binding of the
\* last well-formed line naming the slot, or None when no line names it.
LinesFor(lines, p, k) ==
  {i \in 1..Len(lines) : ~lines[i].bad /\ lines[i].p = p /\ lines[i].k = k}

ExpectedLoad(lines) ==
  [p \in Pads |-> [k \in VKeys |->
     LET S == LinesFor(lines, p, k)
     IN IF S = {} THEN NoBinding
        ELSE LET l == lines[CHOOSE i \in S : \A j \in S : j <= i]
             IN Binding(l.type, l.jid, l.code, l.dir, l.th)]]

\* The load at startup, and the one of a frame whose only hotkey is F9.
StartupLoads == pc = "start" /\ pc' = "loop"
HotkeyLoads == pc = "hotkeys" /\ Pressed = {GLFW_KEY_F9}

\* C8: a load of a file that opens leaves every slot with the binding of the
\* well-formed in-range line naming it, wherever bad lines stand in the file,
\* and None in the slots no such line names.
C8_LoadSkipsBadLines ==
  [][(StartupLoads \/ HotkeyLoads) /\ fs.state = "present"
       => gPad' = ExpectedLoad(fs.lines)]_vars

\* Two bindings with the same kind, device, code and direction, and the same
\* threshold to six decimals.
SameTo6(a, b) ==
  /\ a.type = b.type /\ a.jid = b.jid /\ a.code = b.code /\ a.dir = b.dir
  /\ Fmt6(a.threshold) = Fmt6(b.threshold)

\* C9: a save followed by a load (F5 and F9 in one frame, or F9 on the file a
\* save of these bindings wrote) leaves every slot the same to six decimals,
\* and exactly the same when its threshold has no more than six; a save
\* writes twelve lines and changes no slot.
C9_SaveLoadRoundTrip ==
  [][pc = "hotkeys" /\ GLFW_KEY_BACKSPACE \notin Pressed =>
       /\ (/\ GLFW_KEY_F9 \in Pressed
           /\ \/ (GLFW_KEY_F5 \in Pressed /\ fs.state # "denied")
              \/ fs = [state |-> "present", lines |-> SaveLines(gPad)])
          => \A p \in Pads, k \in VKeys :
               /\ SameTo6(gPad'[p][k], gPad[p][k])
               /\ gPad[p][k].threshold % 10 = 0 => gPad'[p][k] = gPad[p][k]
       /\ (GLFW_KEY_F5 \in Pressed /\ GLFW_KEY_F9 \notin Pressed) => gPad' = gPad
       /\ (GLFW_KEY_F5 \in Pressed /\ fs.state # "denied")
          => fs'.state = "present" /\ Len(fs'.lines) = 2 * VK_Count]_vars

\* C9's case: F5 and F9 in one frame, on bindings with a cleared slot, a
\* default key and a loaded axis binding; the file holds what was saved.
C9_Witness ==
  /\ pc = "learn" /\ Pressed = {GLFW_KEY_F5, GLFW_KEY_F9}
  /\ fs.state = "present" /\ fs.lines = SaveLines(padTick)
  /\ gPad[0][VK_Up] = NoBinding
  /\ gPad[0][VK_Down].type = BT_Key
  /\ padTick[0][VK_Up] = NoBinding

\* C10: a load or a save that cannot open the file changes no slot, not the
\* selection, not the armed flag and not the file; the load at startup that
\* cannot open it leaves the defaults in place.
C10_FailureIsNoOp ==
  [][/\ (pc = "hotkeys" /\ Pressed # {} /\ Pressed \subseteq {GLFW_KEY_F5, GLFW_KEY_F9}
         /\ (fs.state = "denied" \/ (fs.state = "absent" /\ GLFW_KEY_F5 \notin Pressed)))
        => /\ gPad' = gPad /\ fs' = fs
           /\ gEditPad' = gEditPad /\ gEditKey' = gEditKey /\ gLearning' = gLearning
     /\ fs.state # "present"
        => ~loadMappings(fs, gPad).ok /\ loadMappings(fs, gPad).pad = gPad
     /\ fs.state = "denied"
        => ~saveMappings(fs, gPad).ok /\ saveMappings(fs, gPad).fs = fs
     /\ (StartupLoads /\ fs.state # "present")
        => /\ gPad'[0][VK_Up] = DefaultKey(GLFW_KEY_W)
           /\ \A p \in Pads, k \in VKeys : gPad'[p][k].type = BT_Key]_vars

\* C10's case: F9 alone with no file to open, the defaults still bound.
C10_Witness ==
  /\ pc = "learn" /\ Pressed = {GLFW_KEY_F9} /\ fs.state \in {"absent", "denied"}
  /\ gPad[0][VK_Up] = DefaultKey(GLFW_KEY_W) /\ gPad = padTick

\* ------------------------------------------------------------------------
\* Load runs: F9, SPACE and BACKSPACE; padmap.txt missing or one line that
\* fscanf converts and whose fields loadMappings stores as they are: a kind
\* outside the enum, an axis binding with direction 0, an axis binding with
\* threshold 2.0.
\* ------------------------------------------------------------------------
UnknownKindLine == Line(0, VK_Up, 9, 0, 0, 0, 4500000)
AxisNoSignLine == Line(0, VK_Down, BT_GamepadAxisDir, 0, 0, 0, 4500000)
AxisBigThresholdLine == Line(1, VK_Up, BT_JoyAxisDir, 0, 0, 1, 20000000)

OneLineFiles ==
  {[state |-> "present", lines |-> <<l>>] :
     l \in {UnknownKindLine, AxisNoSignLine, AxisBigThresholdLine}}

EnvLoad == [keys |-> KeySets({GLFW_KEY_F9, GLFW_KEY_SPACE, GLFW_KEY_BACKSPACE}),
            taps |-> {FALSE}, devs |-> {NoJoysticks},
            files |-> {NoFile} \cup OneLineFiles]

InitLoad == Init(EnvLoad)
NextLoad == Frame(EnvLoad)
SpecLoad == InitLoad /\ [][NextLoad]_vars

\* The six kinds of enum class BindType, and the two that carry an axis.
BindTypes == BT_None..BT_JoyAxisDir
AxisTypes == {BT_GamepadAxisDir, BT_JoyAxisDir}

WellFormed(b) ==
  /\ b.type \in BindTypes
  /\ b.type \in AxisTypes => b.dir \in {-1, 1} /\ 0 < b.threshold /\ b.threshold < 10000000

\* C11: in every state every slot holds one of the six binding kinds, and a
\* slot holding an axis-direction binding has direction -1 or +1 and a
\* threshold strictly between 0 and 1.
C11_BindingWellFormed ==
  \A p \in Pads, k \in VKeys : WellFormed(gPad[p][k])

\* ------------------------------------------------------------------------
\* Sample runs: padmap.txt holds eleven bindings that startup loads (pad 0 /
\* Up has no line and stays None); key W; on slot GLFW_JOYSTICK_1 nothing, a
\* raw stick or a gamepad with one button and one axis at rest, at +-0.60
\* or at +-0.95.  Nothing is ever connected to the slot after it.
\* ------------------------------------------------------------------------
SampleLines ==
  << Line(0, VK_Down, BT_Key, -1, GLFW_KEY_LAST + 1, 0, 0),
     Line(0, VK_Left, BT_JoyButton, GLFW_JOYSTICK_LAST + 1, 0, 0, 4500000),
     Line(0, VK_Right, BT_JoyButton, GLFW_JOYSTICK_1 + 1, 0, 0, 4500000),
     Line(0, VK_B1, BT_GamepadButton, GLFW_JOYSTICK_1, 0, 0, 4500000),
     Line(0, VK_B2, BT_JoyButton, GLFW_JOYSTICK_1, 1, 0, 4500000),
     Line(1, VK_Up, BT_GamepadAxisDir, GLFW_JOYSTICK_1, 0, 0, 4500000),
     Line(1, VK_Down, BT_JoyButton, GLFW_JOYSTICK_1, 0, 0, 4500000),
     Line(1, VK_Left, BT_JoyAxisDir, GLFW_JOYSTICK_1, 0, 1, 4500000),
     Line(1, VK_Right, BT_JoyAxisDir, GLFW_JOYSTICK_1, 0, 1, 9000000),
     Line(1, VK_B1, BT_GamepadAxisDir, GLFW_JOYSTICK_1, 0, -1, 4500000),
     Line(1, VK_B2, BT_GamepadAxisDir, GLFW_JOYSTICK_1, 0, -1, 9000000) >>

SampleFile == [state |-> "present", lines |-> SampleLines]

SampleAxisValues == {0, 6000000, 9500000, -6000000, -9500000}

SampleDevs ==
  {AbsentDev}
  \cup {RawStick(b, v) : b \in Buttons, v \in SampleAxisValues}
  \cup {Gamepad(b, v, b, v) : b \in Buttons, v \in SampleAxisValues}

EnvSample == [keys |-> KeySets({GLFW_KEY_W}), taps |-> {FALSE},
              devs |-> {OnSlot1(d) : d \in SampleDevs}, files |-> {SampleFile}]

InitSample == Init(EnvSample)
NextSample == Frame(EnvSample)
SpecSample == InitSample /\ [][NextSample]_vars

\* The bindings the claim names as never active, by what GLFW reports now.
JoyTypes == {BT_GamepadButton, BT_GamepadAxisDir, BT_JoyButton, BT_JoyAxisDir}

Degraded(b) ==
  \/ b.type = BT_None
  \/ b.type = BT_Key /\ b.code \notin 0..GLFW_KEY_LAST
  \/ b.type \in JoyTypes /\ b.jid \notin GLFW_JOYSTICK_1..GLFW_JOYSTICK_LAST
  \/ b.type \in JoyTypes /\ b.jid \in JoySlots /\ ~dev[b.jid].present
  \/ b.type \in JoyTypes /\ b.jid \in (GLFW_JOYSTICK_1..GLFW_JOYSTICK_LAST) \ JoySlots
  \/ b.type \in {BT_GamepadButton, BT_GamepadAxisDir} /\ b.jid \in JoySlots
     /\ dev[b.jid].present /\ ~dev[b.jid].isGamepad
  \/ b.type = BT_JoyButton /\ b.jid \in JoySlots /\ b.code >= Len(dev[b.jid].buttons)
  \/ b.type = BT_JoyAxisDir /\ b.jid \in JoySlots /\ b.code >= Len(dev[b.jid].axes)
  \/ b.type \in AxisTypes /\ b.dir = 0

RawButtonDown(b) ==
  /\ b.type = BT_JoyButton /\ b.jid \in JoySlots /\ dev[b.jid].present
  /\ b.code \in 0..(Len(dev[b.jid].buttons) - 1)
  /\ dev[b.jid].buttons[b.code + 1] = GLFW_PRESS

\* C12: the sampling step changes nothing but the two DigitalStates; a
\* degraded binding (None, key code out of range, device id out of range or
\* device absent, gamepad binding on a device that is not a gamepad, raw
\* index not below the live count, axis binding with direction 0) samples
\* inactive; a raw button binding on a present device samples the button,
\* gamepad or not.
C12_SampleTotalInactive ==
  [][pc = "sample" =>
       /\ UNCHANGED <<gKeyDown, gKeyDownPrev, gPad, gJoy, gEditPad, gEditKey,
                      gLearning, dev, fs, shouldClose>>
       /\ \A p \in Pads, k \in VKeys :
            /\ dig'[p][k] \in BOOLEAN
            /\ Degraded(gPad[p][k]) => ~dig'[p][k]
            /\ RawButtonDown(gPad[p][k]) => dig'[p][k]]_vars

\* C12's case: a raw stick with its button down and its axis at 0.60; the
\* raw button binding is active, the gamepad button binding on the same
\* device, the direction-0 axis binding, the out-of-range ones and the None
\* slot are not.
C12_Witness ==
  /\ pc = "keyprev"
  /\ dev[GLFW_JOYSTICK_1] = RawStick(GLFW_PRESS, 6000000)
  /\ gPad[0][VK_Up].type = BT_None /\ gPad[0][VK_B1].type = BT_GamepadButton
  /\ gPad[1][VK_Up].dir = 0
  /\ dig[1][VK_Down] /\ dig[1][VK_Left]
  /\ \A k \in VKeys : ~dig[0][k]
  /\ ~dig[1][VK_Up]

\* Two slots bound to the same axis of the same device in the same
\* direction, by the same kind of binding.
SameAxis(a, b) ==
  /\ a.type \in AxisTypes /\ a.type = b.type
  /\ a.jid = b.jid /\ a.code = b.code /\ a.dir = b.dir /\ a.dir # 0

\* The live value of the axis an in-range axis binding names.
LiveAxis(b) ==
  IF b.type = BT_GamepadAxisDir THEN dev[b.jid].gp.axes[b.code + 1]
  ELSE dev[b.jid].axes[b.code + 1]

ThresholdSamples == {0, 4500000, 6000000, 9000000, 9500000}

\* C14: of two slots bound to the same axis and direction, the one with the
\* higher threshold is active only if the one with the lower threshold is;
\* and on a live axis value v a binding with threshold t is active exactly
\* when v > t (direction +1) or v < -t (direction -1), so that for t1 <= t2
\* active at t2 implies active at t1.
C14_ThresholdMonotonic ==
  pc = "keyprev" =>
    /\ \A p, q \in Pads, k, j \in VKeys :
         (SameAxis(gPad[p][k], gPad[q][j])
          /\ gPad[p][k].threshold <= gPad[q][j].threshold /\ dig[q][j])
         => dig[p][k]
    /\ \A p \in Pads, k \in VKeys :
         LET b == gPad[p][k]
         IN (b.type \in AxisTypes /\ b.dir # 0 /\ dev[b.jid].present
             /\ (b.type = BT_GamepadAxisDir => dev[b.jid].isGamepad))
            => /\ dig[p][k] = (IF b.dir > 0 THEN LiveAxis(b) > b.threshold
                               ELSE LiveAxis(b) < -b.threshold)
               /\ \A t1, t2 \in ThresholdSamples :
                    (t1 <= t2 /\ AxisActive([b EXCEPT !.threshold = t2], LiveAxis(b)))
                    => AxisActive([b EXCEPT !.threshold = t1], LiveAxis(b))

\* C14's case: the axis at 0.60 on a gamepad; the raw binding with threshold
\* 0.45 is active and the one with threshold 0.90 on the same axis is not.
C14_Witness ==
  /\ pc = "keyprev"
  /\ dev[GLFW_JOYSTICK_1] = Gamepad(GLFW_RELEASE, 6000000, GLFW_RELEASE, 6000000)
  /\ SameAxis(gPad[1][VK_Left], gPad[1][VK_Right])
  /\ gPad[1][VK_Left].threshold < gPad[1][VK_Right].threshold
  /\ dig[1][VK_Left] /\ ~dig[1][VK_Right]

\* ------------------------------------------------------------------------
\* Play runs: the default bindings, no file, no joystick; the six keys of
\* pad 0 in every combination.
\* ------------------------------------------------------------------------
PlayKeys == {GLFW_KEY_W, GLFW_KEY_S, GLFW_KEY_A, GLFW_KEY_D, GLFW_KEY_J, GLFW_KEY_K}

EnvPlay == [keys |-> SUBSET PlayKeys, taps |-> {FALSE},
            devs |-> {NoJoysticks}, files |-> {NoFile}]

InitPlay == Init(EnvPlay)
NextPlay == Frame(EnvPlay)
SpecPlay == InitPlay /\ [][NextPlay]_vars

\* C13: once a frame has sampled, every control bound to a key in range is
\* active exactly when that key is down in the frame's current snapshot,
\* whatever the previous snapshot holds: pad 0 Up, bound to W, is active in
\* every frame with W down and inactive in every frame with W up.
C13_PlaybackLevelTriggered ==
  pc = "keyprev" =>
    /\ \A p \in Pads, k \in VKeys :
         (gPad[p][k].type = BT_Key /\ gPad[p][k].code \in 0..GLFW_KEY_LAST)
         => dig[p][k] = (gPad[p][k].code \in gKeyDown)
    /\ gPad[0][VK_Up] = DefaultKey(GLFW_KEY_W)
    /\ dig[0][VK_Up] = (GLFW_KEY_W \in gKeyDown)

\* C13's case: W held into a second frame, up still active.
C13_Witness ==
  /\ pc = "keyprev" /\ GLFW_KEY_W \in keysSeen /\ GLFW_KEY_W \in gKeyDownPrev
  /\ GLFW_KEY_W \in gKeyDown /\ dig[0][VK_Up]

\* Bit i of the byte v.
BitOf(v, i) == (v \div (2 ^ i)) % 2 = 1

\* C15: of the byte packBits makes of a DigitalState, bit i is set exactly
\* when the control with ordinal i is active, and bits 6 and 7 are clear;
\* for the DigitalStates of the frame and for every combination of the six
\* booleans.
C15_PackedBits ==
  pc = "keyprev" =>
    \A d \in {dig[0], dig[1]} \cup [VKeys -> BOOLEAN] :
      /\ packBits(d) \in 0..63
      /\ BitOf(packBits(d), 0) = d[VK_Up] /\ BitOf(packBits(d), 1) = d[VK_Down]
      /\ BitOf(packBits(d), 2) = d[VK_Left] /\ BitOf(packBits(d), 3) = d[VK_Right]
      /\ BitOf(packBits(d), 4) = d[VK_B1] /\ BitOf(packBits(d), 5) = d[VK_B2]
      /\ ~BitOf(packBits(d), 6) /\ ~BitOf(packBits(d), 7)

\* C15's case: W, A and K down; pad 0 packs to 0x25.
C15_Witness ==
  /\ pc = "keyprev" /\ gKeyDown = {GLFW_KEY_W, GLFW_KEY_A, GLFW_KEY_K}
  /\ dig[0][VK_Up] /\ ~dig[0][VK_Down] /\ dig[0][VK_Left] /\ dig[0][VK_B2]
  /\ packBits(dig[0]) = 37 /\ packBits(dig[1]) = 0

\* ------------------------------------------------------------------------
\* Editor runs: F2, TAB, 1 and 6 in every combination, or SPACE, BACKSPACE
\* or both; no joystick, no file.
\* ------------------------------------------------------------------------
EditKeys == {GLFW_KEY_F2, GLFW_KEY_TAB, GLFW_KEY_1, GLFW_KEY_6}

EnvEdit == [keys |-> (SUBSET EditKeys)
                     \cup {{GLFW_KEY_SPACE}, {GLFW_KEY_BACKSPACE},
                           {GLFW_KEY_SPACE, GLFW_KEY_BACKSPACE}},
            taps |-> {FALSE}, devs |-> {NoJoysticks}, files |-> {NoFile}]

InitEdit == Init(EnvEdit)
NextEdit == Frame(EnvEdit)
SpecEdit == InitEdit /\ [][NextEdit]_vars

\* The pad-select, toggle and control-select hotkeys.
SelectHotkeys ==
  {GLFW_KEY_F1, GLFW_KEY_F2, GLFW_KEY_TAB, GLFW_KEY_1, GLFW_KEY_2, GLFW_KEY_3,
   GLFW_KEY_4, GLFW_KEY_5, GLFW_KEY_6}

SelectionInRange == gEditPad \in {0, 1} /\ gEditKey \in VK_Up..VK_B2

\* C16: the selected pad is 0 or 1 and the selected control one of the six,
\* always; the selection changes only in the hotkey step of a frame in which
\* a select hotkey went down; the armed flag changes only in the hotkey step
\* of a frame in which SPACE or BACKSPACE went down, or in a learning step
\* that matches.
C16_EditorSelection ==
  /\ []SelectionInRange
  /\ [][((gEditPad' # gEditPad \/ gEditKey' # gEditKey)
          => (pc = "hotkeys" /\ Pressed \cap SelectHotkeys # {}))
        /\ (gLearning' # gLearning
             => ((pc = "hotkeys"
                  /\ Pressed \cap {GLFW_KEY_SPACE, GLFW_KEY_BACKSPACE} # {})
                 \/ (pc = "learn" /\ gLearning /\ LearnMatch(gJoy).found)))]_vars

\* C16's case: F2, TAB, 1 and 6 went down together with pad 0 / Up
\* selected; the selection is pad 0 / B2.
C16_Witness ==
  /\ pc = "learn" /\ Pressed = {GLFW_KEY_F2, GLFW_KEY_TAB, GLFW_KEY_1, GLFW_KEY_6}
  /\ editTick[1] = 0 /\ editTick[2] = VK_Up
  /\ gEditPad = 0 /\ gEditKey = VK_B2

\* The steps of a frame between the refresh and the copy to 'previous'.
SnapshotsStable ==
  pc \in {"hotkeys", "learn", "sample"}
  => UNCHANGED <<gKeyDown, gKeyDownPrev, gJoy>>

\* C17: while a frame's consumers run, the keyboard 'previous' array is the
\* 'current' array the previous frame's consumers saw; for a joystick slot
\* present in both frames the raw 'previous' arrays are what the device
\* reported in the previous frame and the 'current' arrays what it reports
\* now, and so is the gamepad 'previous' snapshot when it is flagged valid;
\* and no snapshot changes from the hotkey step to the end of sampling.
C17_StablePreviousCurrent ==
  /\ [](Consuming =>
          /\ gKeyDownPrev = keysSeen
          /\ \A jid \in JoySlots :
               (dev[jid].present /\ devPrior[jid].present) =>
                 /\ gJoy[jid].btnPrev = devPrior[jid].buttons
                 /\ gJoy[jid].axisPrev = devPrior[jid].axes
                 /\ gJoy[jid].btnCur = dev[jid].buttons
                 /\ gJoy[jid].axisCur = dev[jid].axes
                 /\ gJoy[jid].gpHasPrev = devPrior[jid].isGamepad
                 /\ gJoy[jid].gpHasPrev => gJoy[jid].gpPrev = devPrior[jid].gp)
  /\ [][SnapshotsStable]_vars

\* C17's case: a gamepad present in two frames, its button released in the
\* first and pressed in the second, its axis moved, while SPACE is held.
C17_Witness ==
  /\ pc = "learn"
  /\ devPrior[GLFW_JOYSTICK_1] = Gamepad(GLFW_RELEASE, 0, GLFW_RELEASE, 0)
  /\ dev[GLFW_JOYSTICK_1] = Gamepad(GLFW_PRESS, 8000000, GLFW_PRESS, 8000000)
  /\ gJoy[GLFW_JOYSTICK_1].gpHasPrev
  /\ gJoy[GLFW_JOYSTICK_1].btnPrev = <<GLFW_RELEASE>>
  /\ gJoy[GLFW_JOYSTICK_1].btnCur = <<GLFW_PRESS>>
  /\ keysSeen = {GLFW_KEY_SPACE} /\ gKeyDownPrev = {GLFW_KEY_SPACE}
  /\ gKeyDown = {GLFW_KEY_SPACE}

\* ------------------------------------------------------------------------
\* Scan runs: SPACE and W; from the first poll on, on each of the joystick
\* slots 0 and 1 a gamepad with two buttons and two axes, of which none,
\* the second or both are active (button pressed and axis at 0.80, in the
\* raw and in the gamepad view).
\* ------------------------------------------------------------------------
ScanDev(m) ==
  [present |-> TRUE, isGamepad |-> TRUE,
   buttons |-> [i \in 1..2 |-> IF (i - 1) \in m THEN GLFW_PRESS ELSE GLFW_RELEASE],
   axes |-> [i \in 1..2 |-> IF (i - 1) \in m THEN 8000000 ELSE 0],
   gp |-> [buttons |-> [b \in 1..(GpButtonLast + 1) |->
                          IF (b - 1) \in m THEN GLFW_PRESS ELSE GLFW_RELEASE],
           axes |-> [a \in 1..(GpAxisLast + 1) |->
                          IF (a - 1) \in m THEN 8000000 ELSE 0]]]

ScanDevs == {ScanDev(m) : m \in {{}, {1}, {0, 1}}}

OnSlots(d0, d1) ==
  [jid \in JoySlots |-> IF jid = GLFW_JOYSTICK_1 THEN d0
                        ELSE IF jid = GLFW_JOYSTICK_1 + 1 THEN d1 ELSE AbsentDev]

EnvScan == [keys |-> KeySets({GLFW_KEY_SPACE, GLFW_KEY_W}), taps |-> {FALSE},
            devs |-> {OnSlots(d0, d1) : d0 \in ScanDevs, d1 \in ScanDevs},
            files |-> {NoFile}]

InitScan == Init(EnvScan)
NextScan == Frame(EnvScan)
SpecScan == InitScan /\ [][NextScan]_vars

\* The inputs of each joystick source that qualify in this frame, by what
\* the devices reported in the previous frame and report now: <<slot, index>>.
BothFrames(jid) == dev[jid].present /\ devPrior[jid].present
BothGamepad(jid) == BothFrames(jid) /\ dev[jid].isGamepad /\ devPrior[jid].isGamepad

Rose(prev, cur) == cur = GLFW_PRESS /\ prev # GLFW_PRESS
Moved(prev, cur) == Abs(prev) < 2000000 /\ Abs(cur) > 5500000

GamepadButtonInputs ==
  {x \in JoySlots \X (0..GpButtonLast) :
     BothGamepad(x[1])
     /\ Rose(devPrior[x[1]].gp.buttons[x[2] + 1], dev[x[1]].gp.buttons[x[2] + 1])}

GamepadAxisInputs ==
  {x \in JoySlots \X (0..GpAxisLast) :
     BothGamepad(x[1])
     /\ Moved(devPrior[x[1]].gp.axes[x[2] + 1], dev[x[1]].gp.axes[x[2] + 1])}

RawButtonInputs ==
  {x \in JoySlots \X (0..1) :
     BothFrames(x[1]) /\ Rose(devPrior[x[1]].buttons[x[2] + 1], dev[x[1]].buttons[x[2] + 1])}

RawAxisInputs ==
  {x \in JoySlots \X (0..1) :
     BothFrames(x[1]) /\ Moved(devPrior[x[1]].axes[x[2] + 1], dev[x[1]].axes[x[2] + 1])}

\* Detector result r reports the first of the inputs H: lowest slot, and
\* lowest index within that slot; or nothing when there is none.
ReportsFirst(r, H) ==
  IF H = {} THEN ~r.found
  ELSE /\ r.found /\ <<r.jid, r.code>> \in H
       /\ \A y \in H : r.jid < y[1] \/ (r.jid = y[1] /\ r.code <= y[2])

\* C18: an armed learning step with several keys newly down binds the one
\* with the lowest key code; and in every learning step each of the four
\* joystick detectors reports, of the inputs of its source that qualify, the
\* one on the lowest slot and of the lowest index there - the one learning
\* binds when that source wins.
C18_ScanOrder ==
  [][pc = "learn" =>
       /\ (gLearning /\ Pressed # {}) =>
            /\ gPad'[gEditPad][gEditKey].type = BT_Key
            /\ gPad'[gEditPad][gEditKey].code \in Pressed
            /\ \A c \in Pressed : gPad'[gEditPad][gEditKey].code <= c
       /\ ReportsFirst(detectGamepadButtonPress(gJoy), GamepadButtonInputs)
       /\ ReportsFirst(detectGamepadAxisMove(gJoy), GamepadAxisInputs)
       /\ ReportsFirst(detectJoyButtonPress(gJoy), RawButtonInputs)
       /\ ReportsFirst(detectJoyAxisMove(gJoy), RawAxisInputs)
       /\ (GamepadButtonInputs # {} /\ LearnFromJoysticks(gJoy).found) =>
            /\ LearnFromJoysticks(gJoy).b.type = BT_GamepadButton
            /\ <<LearnFromJoysticks(gJoy).b.jid, LearnFromJoysticks(gJoy).b.code>>
                 \in GamepadButtonInputs
            /\ \A y \in GamepadButtonInputs :
                 LearnFromJoysticks(gJoy).b.jid <= y[1]]_vars

\* C18's case: SPACE and W went down together and SPACE was bound; on slot
\* 0 button 1 and on slot 1 both buttons went down with their axes, and the
\* detectors report slot 0, index 1.
C18_Witness ==
  /\ pc = "sample" /\ Pressed = {GLFW_KEY_SPACE, GLFW_KEY_W}
  /\ Selected(gPad) = KeySpace /\ Selected(padTick) # KeySpace
  /\ devPrior = OnSlots(ScanDev({}), ScanDev({}))
  /\ dev = OnSlots(ScanDev({1}), ScanDev({0, 1}))
  /\ detectGamepadButtonPress(gJoy).jid = 0 /\ detectGamepadButtonPress(gJoy).code = 1
  /\ detectJoyAxisMove(gJoy).jid = 0 /\ detectJoyAxisMove(gJoy).code = 1

\* The selection a frame's hotkeys make of the one it began with.
PadAfterKeys ==
  LET a == IF GLFW_KEY_F1 \in Pressed THEN 0 ELSE editTick[1]
      b == IF GLFW_KEY_F2 \in Pressed THEN 1 ELSE a
  IN IF GLFW_KEY_TAB \in Pressed THEN 1 - b ELSE b

KeyAfterKeys ==
  LET S == {i \in VKeys : (GLFW_KEY_1 + i) \in Pressed}
  IN IF S = {} THEN editTick[2] ELSE CHOOSE i \in S : \A j \in S : j <= i

\* The steps of the loop body follow each other in the order of the source.
StepOrder ==
  /\ pc = "poll" => pc' = "caches"
  /\ pc = "caches" => pc' = "hotkeys"
  /\ pc = "hotkeys" => pc' = "learn"
  /\ pc = "learn" => pc' = "sample"
  /\ pc = "sample" => pc' = "keyprev"
  /\ pc = "keyprev" => pc' = "loop" /\ gKeyDownPrev' = gKeyDown
  /\ pc # "keyprev" => gKeyDownPrev' = gKeyDownPrev

\* C19: the steps of a frame run in the order refresh, hotkeys, learning,
\* sampling, copy of the keyboard 'previous'; a frame that arms and binds
\* writes the slot its own select hotkeys selected and no other; and the
\* DigitalStates of the frame are those of the bindings as the frame's
\* clear and learning left them.
C19_PerTickOrdering ==
  /\ [][StepOrder]_vars
  /\ [](pc = "keyprev" =>
          /\ (GLFW_KEY_SPACE \in Pressed /\ GLFW_KEY_BACKSPACE \notin Pressed) =>
               /\ gEditPad = PadAfterKeys /\ gEditKey = KeyAfterKeys
               /\ gPad[PadAfterKeys][KeyAfterKeys] = KeySpace
               /\ OtherSlotsSame(gPad, padTick, PadAfterKeys, KeyAfterKeys)
               /\ dig[PadAfterKeys][KeyAfterKeys]
          /\ GLFW_KEY_BACKSPACE \in Pressed =>
               /\ gPad[PadAfterKeys][KeyAfterKeys] = NoBinding
               /\ ~dig[PadAfterKeys][KeyAfterKeys]
          /\ \A p \in Pads, k \in VKeys :
               dig[p][k] = (gPad[p][k].type = BT_Key /\ gPad[p][k].code \in gKeyDown))

\* C19's case: SPACE and TAB went down together with pad 0 selected; pad 1's
\* slot is bound to SPACE and active in this frame, pad 0 is untouched.
C19_Witness ==
  /\ pc = "keyprev" /\ Pressed = {GLFW_KEY_SPACE, GLFW_KEY_TAB}
  /\ editTick[1] = 0 /\ gEditPad = 1
  /\ gPad[1][gEditKey] = KeySpace /\ padTick[1][gEditKey] # KeySpace
  /\ dig[1][gEditKey] /\ gPad[0] = padTick[0]

\* ------------------------------------------------------------------------
\* Quit runs: ESC, W and SPACE, ESC also pressed and released within one
\* poll; no joystick, no file.  main() is one thread and each of its steps
\* returns, so a step that can be taken is taken.
\* ------------------------------------------------------------------------
EnvQuit == [keys |-> KeySets({GLFW_KEY_ESCAPE, GLFW_KEY_W, GLFW_KEY_SPACE}),
            taps |-> {FALSE, TRUE}, devs |-> {NoJoysticks}, files |-> {NoFile}]

InitQuit == Init(EnvQuit)
NextQuit == Frame(EnvQuit)
SpecQuit == InitQuit /\ [][NextQuit]_vars /\ WF_vars(NextQuit)

\* What a step may do about quitting.
QuitStep ==
  /\ (pc = "poll" /\ GLFW_KEY_ESCAPE \in gKeyDown' /\ GLFW_KEY_ESCAPE \notin gKeyDown)
     => shouldClose'
  /\ shouldClose => shouldClose' /\ pc' # "poll"
  /\ (shouldClose /\ pc = "loop") => (pc' = "exited" /\ exitCode' = 0)
  /\ (pc' = "exited" /\ exitCode' = 0) => (pc = "loop" /\ shouldClose)
  /\ (pc' = "exited" /\ exitCode' = 1) => pc = "start"
  /\ pc = "start" => pc' \in {"loop", "exited"}
  /\ pc # "exited" /\ pc' # "exited" => exitCode' = -1

\* C20: a poll that delivers an ESC press sets the close flag; with the flag
\* set the frame in progress runs through its remaining steps in order, no
\* further poll is made, and the program exits with status 0; status 1 is
\* returned only straight from startup, before any frame; nothing runs after
\* the exit.
C20_GracefulQuit ==
  /\ [][QuitStep /\ StepOrder /\ pc # "exited"]_vars
  /\ [](pc = "exited" => exitCode \in {0, 1})
  /\ [](pc = "exited" /\ exitCode = 1 => gPad = NonePads /\ ~shouldClose /\ gKeyDown = {})
  /\ (shouldClose ~> (pc = "exited" /\ exitCode = 0))

\* C20's case: ESC went down while W was held; the frame ran to its end
\* (the 'previous' copy holds ESC) and the program returned 0.
C20_Witness ==
  /\ pc = "exited" /\ exitCode = 0 /\ shouldClose
  /\ gKeyDown = {GLFW_KEY_ESCAPE, GLFW_KEY_W} /\ keysSeen = {GLFW_KEY_W}
  /\ gKeyDownPrev = gKeyDown
  /\ gPad[0][VK_Up] = DefaultKey(GLFW_KEY_W)

\* ------------------------------------------------------------------------
\* Crossing runs: SPACE; on slot GLFW_JOYSTICK_1 a raw stick or a gamepad
\* with buttons released and its axis 0 at 0.0, 0.20, 0.30, 0.55, 0.80 or
\* -0.80.
\* ------------------------------------------------------------------------
CrossingValues == {0, 2000000, 3000000, 5500000, 8000000, -8000000}

CrossingDevs ==
  {RawStick(GLFW_RELEASE, v) : v \in CrossingValues}
  \cup {Gamepad(GLFW_RELEASE, v, GLFW_RELEASE, v) : v \in CrossingValues}

EnvCross == [keys |-> KeySets({GLFW_KEY_SPACE}), taps |-> {FALSE},
             devs |-> {OnSlot1(d) : d \in CrossingDevs}, files |-> {NoFile}]

InitCross == Init(EnvCross)
NextCross == Frame(EnvCross)
SpecCross == InitCross /\ [][NextCross]_vars

\* Raw axis a of slot jid, and gamepad axis a of slot jid, are comparable
\* between the previous frame and this one.
RawAxisPair(jid, a) ==
  /\ BothFrames(jid)
  /\ Len(devPrior[jid].axes) = Len(dev[jid].axes) /\ a < Len(dev[jid].axes)

GamepadAxisPair(jid, a) == BothGamepad(jid) /\ a <= GpAxisLast

\* The axes the two axis detectors count as moved in this frame.
RawMoved(jid, a) == jid \in RawAxisSlots(gJoy) /\ a \in JoyAxisHits(gJoy, jid)
GamepadMoved(jid, a) == jid \in GamepadSlots(gJoy) /\ a \in GamepadAxisHits(gJoy, jid)

\* Previous sample p and current sample c: held beyond 0.55, or one of them
\* with magnitude from 0.20 to 0.55.
HeldOrGradual(p, c) ==
  \/ Abs(p) > 5500000 /\ Abs(c) > 5500000
  \/ Abs(p) >= 2000000 /\ Abs(p) <= 5500000
  \/ Abs(c) >= 2000000 /\ Abs(c) <= 5500000

\* C21: while a frame's consumers run, an axis counts as moved exactly when
\* its previous sample has magnitude below 0.20 and its current sample is
\* above 0.55 or below -0.55; an axis held beyond 0.55 or passing through a
\* sample of magnitude 0.20 to 0.55 is not moved; and when no axis moved, no
\* button and no key went down, the learning step leaves armed learning
\* armed and the bindings as they are.
C21_AxisCrossingRule ==
  Consuming =>
    /\ \A jid \in JoySlots, a \in 0..1 :
         /\ RawAxisPair(jid, a) =>
              LET p == devPrior[jid].axes[a + 1]
                  c == dev[jid].axes[a + 1]
              IN /\ RawMoved(jid, a) = (Abs(p) < 2000000 /\ (c > 5500000 \/ c < -5500000))
                 /\ HeldOrGradual(p, c) => ~RawMoved(jid, a)
         /\ GamepadAxisPair(jid, a) =>
              LET p == devPrior[jid].gp.axes[a + 1]
                  c == dev[jid].gp.axes[a + 1]
              IN /\ GamepadMoved(jid, a) = (Abs(p) < 2000000 /\ (c > 5500000 \/ c < -5500000))
                 /\ HeldOrGradual(p, c) => ~GamepadMoved(jid, a)
    /\ (/\ Pressed = {}
        /\ \A jid \in JoySlots, a \in 0..1 : ~RawMoved(jid, a) /\ ~GamepadMoved(jid, a)
        /\ ~detectGamepadButtonPress(gJoy).found /\ ~detectJoyButtonPress(gJoy).found)
       => applyLearningIfTriggered(gPad, gJoy, TRUE, gEditPad, gEditKey)
            = [pad |-> gPad, learning |-> TRUE]

\* C21's case: a gamepad axis at 0.30 in the previous frame and at 0.80 in
\* this one, no key newly down; neither axis detector reports it.
C21_Witness ==
  /\ pc = "learn" /\ Pressed = {}
  /\ devPrior[GLFW_JOYSTICK_1] = Gamepad(GLFW_RELEASE, 3000000, GLFW_RELEASE, 3000000)
  /\ dev[GLFW_JOYSTICK_1] = Gamepad(GLFW_RELEASE, 8000000, GLFW_RELEASE, 8000000)
  /\ gJoy[GLFW_JOYSTICK_1].gpHasPrev
  /\ ~detectGamepadAxisMove(gJoy).found /\ ~detectJoyAxisMove(gJoy).found

\* C22: once a frame has sampled, a slot that the frame's learning step
\* bound is active in that frame's DigitalState; and in every frame the
\* binding each learning rule builds from the snapshots (key, gamepad button,
\* gamepad axis, raw button, raw axis) samples active against what the
\* devices report in that frame.
C22_LearnedBindingActive ==
  /\ pc = "keyprev" =>
       /\ Selected(gPad) # Selected(padTick) => dig[gEditPad][gEditKey]
       /\ (GLFW_KEY_SPACE \in Pressed /\ GLFW_KEY_BACKSPACE \notin Pressed) =>
            Selected(gPad).type # BT_None /\ dig[gEditPad][gEditKey]
  /\ Consuming =>
       /\ LearnMatch(gJoy).found => sampleBinding(LearnMatch(gJoy).b)
       /\ LearnFromJoysticks(gJoy).found => sampleBinding(LearnFromJoysticks(gJoy).b)
       /\ detectGamepadAxisMove(gJoy).found =>
            sampleBinding(Match(BT_GamepadAxisDir, detectGamepadAxisMove(gJoy), LearnedThreshold).b)
       /\ detectJoyButtonPress(gJoy).found =>
            sampleBinding(Match(BT_JoyButton, detectJoyButtonPress(gJoy), DefaultThreshold).b)
       /\ detectJoyAxisMove(gJoy).found =>
            sampleBinding(Match(BT_JoyAxisDir, detectJoyAxisMove(gJoy), LearnedThreshold).b)

\* C22's case: SPACE went down, the selected slot was bound to it and is
\* active in the same frame; in that frame a gamepad axis crossed as well.
C22_Witness ==
  /\ pc = "keyprev" /\ GLFW_KEY_SPACE \in Pressed
  /\ Selected(gPad) = KeySpace /\ Selected(padTick) # KeySpace
  /\ dig[gEditPad][gEditKey]
  /\ LearnFromJoysticks(gJoy).found
  /\ LearnFromJoysticks(gJoy).b.type = BT_GamepadAxisDir

\* No detector reports slot jid, and no learning rule builds a binding on it.
NoEventOn(jid) ==
  /\ ~(detectGamepadButtonPress(gJoy).found /\ detectGamepadButtonPress(gJoy).jid = jid)
  /\ ~(detectGamepadAxisMove(gJoy).found /\ detectGamepadAxisMove(gJoy).jid = jid)
  /\ ~(detectJoyButtonPress(gJoy).found /\ detectJoyButtonPress(gJoy).jid = jid)
  /\ ~(detectJoyAxisMove(gJoy).found /\ detectJoyAxisMove(gJoy).jid = jid)
  /\ ~(LearnFromJoysticks(gJoy).found /\ LearnFromJoysticks(gJoy).b.jid = jid)

\* C23: in the frame that first finds a device on a slot absent the frame
\* before, whatever buttons it holds and wherever its axes stand, and in a
\* frame that finds a device reporting what it reported the frame before,
\* no detector reports the slot; and once such a frame has run its learning
\* step the selected slot is not bound to that device.
C23_ConnectNoEdges ==
  \A jid \in JoySlots :
    /\ (Consuming /\ ~devPrior[jid].present /\ dev[jid].present) => NoEventOn(jid)
    /\ (Consuming /\ devPrior[jid].present /\ dev[jid] = devPrior[jid]) => NoEventOn(jid)
    /\ (pc \in {"sample", "keyprev"} /\ dev[jid].present
        /\ (~devPrior[jid].present \/ dev[jid] = devPrior[jid])
        /\ Selected(gPad) # Selected(padTick))
       => Selected(gPad).type = BT_Key

\* C23's case: a gamepad just connected with its buttons held and its axes
\* deflected, in a frame that arms learning; the cache's previous gamepad
\* snapshot shows the button released but is not flagged valid, and the raw
\* previous and current arrays differ in length.
C23_Witness ==
  /\ pc = "learn" /\ gLearning
  /\ ~devPrior[GLFW_JOYSTICK_1].present
  /\ dev[GLFW_JOYSTICK_1] = Gamepad(GLFW_PRESS, 8000000, GLFW_PRESS, 8000000)
  /\ GpButtonAt(gJoy[GLFW_JOYSTICK_1].gpPrev, 0) = GLFW_RELEASE
  /\ GpButtonAt(gJoy[GLFW_JOYSTICK_1].gpCur, 0) = GLFW_PRESS
  /\ ~gJoy[GLFW_JOYSTICK_1].gpHasPrev
  /\ Len(gJoy[GLFW_JOYSTICK_1].btnPrev) # Len(gJoy[GLFW_JOYSTICK_1].btnCur)

\* The keys of the two pads' default bindings, by control ordinal.
DefaultKeys ==
  << <<GLFW_KEY_W, GLFW_KEY_S, GLFW_KEY_A, GLFW_KEY_D, GLFW_KEY_J, GLFW_KEY_K>>,
     <<GLFW_KEY_UP, GLFW_KEY_DOWN, GLFW_KEY_LEFT, GLFW_KEY_RIGHT, GLFW_KEY_N, GLFW_KEY_M>> >>

\* C24: startup with a mapping file that cannot be opened leaves each slot
\* bound to its default key; startup with a file that opens leaves None in
\* every slot that no well-formed line of the file names, and a default
\* key binding in no slot the file does not give one.
C24_StartupBindings ==
  [][StartupLoads =>
       /\ fs.state # "present" =>
            \A p \in Pads, k \in VKeys :
              /\ gPad'[p][k].type = BT_Key
              /\ gPad'[p][k].code = DefaultKeys[p + 1][k + 1]
       /\ fs.state = "present" =>
            \A p \in Pads, k \in VKeys :
              LinesFor(fs.lines, p, k) = {} => gPad'[p][k] = NoBinding]_vars

\* C24's case: the program has just started on a file whose one good line
\* binds pad index 1 / B2; that slot holds the file's binding and the other
\* eleven are None.
C24_Witness ==
  /\ pc = "loop" /\ padTick = NonePads /\ fs.state = "present"
  /\ \E i \in 1..Len(fs.lines) : fs.lines[i] = GoodLine
  /\ gPad[1][VK_B2].type = BT_GamepadAxisDir
  /\ \A p \in Pads, k \in VKeys : (p # 1 \/ k # VK_B2) => gPad[p][k] = NoBinding

====
